---- MODULE Spec2Model ----
(***************************************************************************)
(* Model of the Streamlit analytics dashboard: main.py (session state,    *)
(* login form, logout) and pages/dashboard.py (authentication gate, date  *)
(* range validation, the two fetches, the overview and activity tabs).    *)
(*                                                                         *)
(* A Streamlit script runs top to bottom on every interaction, one run at *)
(* a time per session, so each action below is one whole script run.      *)
(* st.session_state survives between runs; every other name is local to   *)
(* the run and is reset by the next run.                                  *)
(***************************************************************************)
EXTENDS Integers, Sequences, FiniteSets, TLC

VARIABLES
    access_token,        \* st.session_state["access_token"]
    logged_in_user,      \* st.session_state["logged_in_user"]
    show_login_success,  \* st.session_state["show_login_success"]
    script,              \* the script whose run produced the state
    ui,                  \* the messages and widgets the last run displayed
    requests,            \* the HTTP requests the last run issued, in order
    date_range,          \* the tuple st.sidebar.date_input returned
    stats_outcome,       \* what happened to GET /dashboard/stats
    activity_outcome,    \* what happened to GET /dashboard/user_activity
    stats,               \* dashboard.py's local `stats`
    activity_data,       \* dashboard.py's local `activity_data`
    error_message,       \* dashboard.py's local `error_message`
    overview,            \* what tab1 rendered
    activity_view        \* what tab2 rendered

vars == <<access_token, logged_in_user, show_login_success, script, ui,
          requests, date_range, stats_outcome, activity_outcome, stats,
          activity_data, error_message, overview, activity_view>>

session == <<access_token, logged_in_user, show_login_success>>

(***************************************************************************)
(* Bounds of the model.                                                   *)
(***************************************************************************)
MaxSpan == 2        \* days after FirstDate the date picker offers
MaxSeries == 2      \* entries per daily series
MaxDist == 2        \* entries per distribution list

(***************************************************************************)
(* Python and JSON values.  A value is a record [t, n, s]: its type tag,  *)
(* its number (int, bool as 0/1, float in tenths) and its text as a       *)
(* sequence of characters.                                                *)
(***************************************************************************)
PyNone == [t |-> "null", n |-> 0, s |-> <<>>]
PyInt(k) == [t |-> "int", n |-> k, s |-> <<>>]
PyBool(b) == [t |-> "bool", n |-> IF b THEN 1 ELSE 0, s |-> <<>>]
PyFloat(tenths) == [t |-> "float", n |-> tenths, s |-> <<>>]
PyInf == [t |-> "inf", n |-> 0, s |-> <<>>]
PyNaN == [t |-> "nan", n |-> 0, s |-> <<>>]
PyStr(chars) == [t |-> "str", n |-> 0, s |-> chars]
PyList == [t |-> "list", n |-> 0, s |-> <<>>]
PyDict == [t |-> "dict", n |-> 0, s |-> <<>>]

IsNone(v) == v.t = "null"

\* Python truthiness, as `not x` and `if x:` use it.
Truthy(v) ==
    CASE v.t = "null" -> FALSE
      [] v.t = "str" -> v.s /= <<>>
      [] v.t \in {"int", "bool", "float"} -> v.n /= 0
      [] OTHER -> TRUE

(***************************************************************************)
(* int(val), dashboard.py line 28.  Text is stripped of blanks, may carry *)
(* one sign and must then be decimal digits; a float is truncated toward  *)
(* zero; nan is a ValueError, infinity an OverflowError, None, lists and  *)
(* dicts a TypeError.                                                     *)
(***************************************************************************)
Digits == <<"0", "1", "2", "3", "4", "5", "6", "7", "8", "9">>

IsDigit(c) == \E i \in 1..10 : Digits[i] = c

DigitVal(c) == (CHOOSE i \in 1..10 : Digits[i] = c) - 1

RECURSIVE DigitsToInt(_)
DigitsToInt(s) ==
    IF s = <<>> THEN 0
    ELSE DigitsToInt(SubSeq(s, 1, Len(s) - 1)) * 10 + DigitVal(s[Len(s)])

RECURSIVE Strip(_)
Strip(s) ==
    IF s = <<>> THEN s
    ELSE IF s[1] = " " THEN Strip(Tail(s))
    ELSE IF s[Len(s)] = " " THEN Strip(SubSeq(s, 1, Len(s) - 1))
    ELSE s

IntOfStr(s) ==
    LET b == Strip(s)
        signed == b /= <<>> /\ b[1] \in {"+", "-"}
        ds == IF signed THEN Tail(b) ELSE b
        neg == signed /\ b[1] = "-"
    IN  IF ds = <<>> \/ \E i \in 1..Len(ds) : ~IsDigit(ds[i])
        THEN [r |-> "ValueError", n |-> 0]
        ELSE [r |-> "ok",
              n |-> IF neg THEN 0 - DigitsToInt(ds) ELSE DigitsToInt(ds)]

IntOf(v) ==
    CASE v.t \in {"int", "bool"} -> [r |-> "ok", n |-> v.n]
      [] v.t = "float" ->
            [r |-> "ok",
             n |-> IF v.n >= 0 THEN v.n \div 10 ELSE 0 - ((0 - v.n) \div 10)]
      [] v.t = "nan" -> [r |-> "ValueError", n |-> 0]
      [] v.t = "inf" -> [r |-> "OverflowError", n |-> 0]
      [] v.t = "str" -> IntOfStr(v.s)
      [] OTHER -> [r |-> "TypeError", n |-> 0]

(***************************************************************************)
(* A decoded JSON object is a record: `has` is the set of keys present,   *)
(* and the field of an absent key is never read.                          *)
(***************************************************************************)
ErrorText == <<"E", "r", "r", "o", "r">>
NotAvailable == PyStr(<<"N", "/", "A">>)

DictGet(data, key, default) == IF key \in data.has THEN data[key] ELSE default

\* safe_get returns [raised, value]: `raised` is an exception that leaves
\* the function (int() raises OverflowError, which the except clause does
\* not name).
safe_get(data, key, default) ==
    LET val == DictGet(data, key, default)
    IN  IF (val.t = "str" /\ val.s = ErrorText) \/ IsNone(val)
        THEN [raised |-> FALSE, value |-> default]
        ELSE LET c == IntOf(val)
             IN  CASE c.r = "ok" -> [raised |-> FALSE, value |-> PyInt(c.n)]
                   [] c.r \in {"ValueError", "TypeError"} ->
                         [raised |-> FALSE, value |-> default]
                   [] OTHER -> [raised |-> TRUE, value |-> PyNone]

(***************************************************************************)
(* The analysis rate, dashboard.py line 185, kept as the exact fraction   *)
(* num/den.  den = 0 stands for Python's ZeroDivisionError.               *)
(***************************************************************************)
AnalysisRateUnguarded(total_analyses, total_images) ==
    [num |-> total_analyses * 100, den |-> total_images]

AnalysisRate(total_analyses, total_images) ==
    IF total_images > 0
    THEN [num |-> total_analyses * 100, den |-> total_images]
    ELSE [num |-> 0, den |-> 1]

(***************************************************************************)
(* The stats payload and tab1 (Overview), dashboard.py lines 162-238.     *)
(* A distribution entry is [has_id, _id, count]; has_id = FALSE is an     *)
(* entry without the "_id" key, on which item["_id"] raises KeyError.     *)
(***************************************************************************)
NoStats ==
    [t |-> "null", has |-> {}, total_users |-> PyNone, total_images |-> PyNone,
     total_analyses |-> PyNone, body_part_distribution |-> <<>>,
     risk_distribution |-> <<>>]

StatsDict(has, tu, ti, ta, bp, rd) ==
    [t |-> "dict", has |-> has, total_users |-> tu, total_images |-> ti,
     total_analyses |-> ta, body_part_distribution |-> bp,
     risk_distribution |-> rd]

\* `if stats:` holds for a dict with at least one key.
DictTruthy(d) == d.t = "dict" /\ d.has /= {}

NotSpecified == PyStr(<<"N", "o", "t", " ", "S", "p", "e", "c", "i", "f", "i", "e", "d">>)
Unknown == PyStr(<<"U", "n", "k", "n", "o", "w", "n">>)

\* The index of the first entry on which item["_id"] raises, or 0.
FirstKeyError(dist) ==
    IF \E i \in 1..Len(dist) : ~dist[i].has_id
    THEN CHOOSE i \in 1..Len(dist) :
            ~dist[i].has_id /\ \A j \in 1..(i - 1) : dist[j].has_id
    ELSE 0

\* for item in distribution: if item["_id"] is None: item["_id"] = label
\* The loop changes the entries in place and stops at the first KeyError.
Relabel(dist, label) ==
    LET stop == FirstKeyError(dist)
    IN  [i \in 1..Len(dist) |->
            IF (stop = 0 \/ i < stop) /\ IsNone(dist[i]._id)
            THEN [dist[i] EXCEPT !._id = label]
            ELSE dist[i]]

NoChart == [kind |-> "none", rows |-> <<>>]

\* One chart column: [kind, rows] is what is displayed, `data` is the
\* distribution list as the column leaves it.
ChartColumn(dist, total_analyses, label) ==
    IF dist /= <<>> /\ total_analyses > 0
    THEN IF FirstKeyError(dist) = 0
         THEN [kind |-> "chart", rows |-> Relabel(dist, label),
               data |-> Relabel(dist, label)]
         ELSE [kind |-> "warning", rows |-> <<>>, data |-> Relabel(dist, label)]
    ELSE IF total_analyses > 0
         THEN [kind |-> "info_not_available", rows |-> <<>>, data |-> dist]
         ELSE [kind |-> "info_no_analyses", rows |-> <<>>, data |-> dist]

NotRendered ==
    [shown |-> "none", raw_json |-> NoStats, total_users |-> PyNone,
     total_images |-> PyNone, total_analyses |-> PyNone,
     analysis_rate |-> [num |-> 0, den |-> 1],
     body_part |-> NoChart, risk |-> NoChart]

\* Tab1 returns [view, stats, crashed]: what the tab displayed, `stats`
\* after the relabelling loops, and whether an exception ended the script.
Tab1(st, err) ==
    IF DictTruthy(st)
    THEN LET tu == safe_get(st, "total_users", NotAvailable)
             ti == safe_get(st, "total_images", PyInt(0))
             ta == safe_get(st, "total_analyses", PyInt(0))
         IN  IF tu.raised \/ ti.raised \/ ta.raised
             THEN [view |-> [NotRendered EXCEPT !.shown = "exception",
                                                !.raw_json = st],
                   stats |-> st, crashed |-> TRUE]
             ELSE LET bp == ChartColumn(
                                DictGet(st, "body_part_distribution", <<>>),
                                ta.value.n, NotSpecified)
                      rk == ChartColumn(
                                DictGet(st, "risk_distribution", <<>>),
                                ta.value.n, Unknown)
                  IN  [view |->
                          [shown |-> "kpis", raw_json |-> st,
                           total_users |-> tu.value,
                           total_images |-> ti.value,
                           total_analyses |-> ta.value,
                           analysis_rate |->
                               AnalysisRate(ta.value.n, ti.value.n),
                           body_part |-> [kind |-> bp.kind, rows |-> bp.rows],
                           risk |-> [kind |-> rk.kind, rows |-> rk.rows]],
                       stats |->
                          [st EXCEPT
                             !.body_part_distribution =
                                 IF "body_part_distribution" \in st.has
                                 THEN bp.data ELSE @,
                             !.risk_distribution =
                                 IF "risk_distribution" \in st.has
                                 THEN rk.data ELSE @],
                       crashed |-> FALSE]
    ELSE [view |-> [NotRendered EXCEPT
                       !.shown = IF err = <<>> THEN "waiting" ELSE "blank"],
          stats |-> st, crashed |-> FALSE]

(***************************************************************************)
(* Calendar dates <<year, month, day>>, as datetime.date orders and       *)
(* subtracts them (dashboard.py lines 68 and 93).                         *)
(***************************************************************************)
IsLeap(y) == y % 4 = 0 /\ (y % 100 /= 0 \/ y % 400 = 0)

DaysInMonth(y, m) ==
    CASE m = 2 -> IF IsLeap(y) THEN 29 ELSE 28
      [] m \in {4, 6, 9, 11} -> 30
      [] OTHER -> 31

DaysBeforeYear(y) ==
    (y - 1) * 365 + (y - 1) \div 4 - (y - 1) \div 100 + (y - 1) \div 400

RECURSIVE DaysBeforeMonth(_, _)
DaysBeforeMonth(y, m) ==
    IF m = 1 THEN 0 ELSE DaysBeforeMonth(y, m - 1) + DaysInMonth(y, m - 1)

ToOrdinal(d) == DaysBeforeYear(d[1]) + DaysBeforeMonth(d[1], d[2]) + d[3]

\* a < b on dates: year, then month, then day.
DateLT(a, b) ==
    \/ a[1] < b[1]
    \/ a[1] = b[1] /\ a[2] < b[2]
    \/ a[1] = b[1] /\ a[2] = b[2] /\ a[3] < b[3]

\* (end_date - start_date).days
DaysBetween(start, end) == ToOrdinal(end) - ToOrdinal(start)

NextDay(d) ==
    IF d[3] < DaysInMonth(d[1], d[2]) THEN <<d[1], d[2], d[3] + 1>>
    ELSE IF d[2] < 12 THEN <<d[1], d[2] + 1, 1>>
    ELSE <<d[1] + 1, 1, 1>>

\* date.isoformat(): the zero-padded digits of year, month and day.
IsoFormat(d) ==
    <<d[1] \div 1000, (d[1] \div 100) % 10, (d[1] \div 10) % 10, d[1] % 10,
      "-", d[2] \div 10, d[2] % 10, "-", d[3] \div 10, d[3] % 10>>

(***************************************************************************)
(* pd.to_datetime on one date token, a text of digit groups separated by  *)
(* "-" (dashboard.py lines 257-258).  Each token is parsed on its own, so *)
(* "2024-1-9" and "2024-01-09" are the same day; a token that is no date  *)
(* makes the conversion raise.                                            *)
(***************************************************************************)
RECURSIVE SplitDash(_)
SplitDash(s) ==
    IF \E i \in 1..Len(s) : s[i] = "-"
    THEN LET i == CHOOSE k \in 1..Len(s) :
                     s[k] = "-" /\ \A j \in 1..(k - 1) : s[j] /= "-"
         IN  <<SubSeq(s, 1, i - 1)>> \o SplitDash(SubSeq(s, i + 1, Len(s)))
    ELSE <<s>>

AllDigits(s) == s /= <<>> /\ \A i \in 1..Len(s) : IsDigit(s[i])

to_datetime(tok) ==
    LET parts == SplitDash(tok)
    IN  IF Len(parts) = 3 /\ \A i \in 1..3 : AllDigits(parts[i])
        THEN LET y == DigitsToInt(parts[1])
                 m == DigitsToInt(parts[2])
                 d == DigitsToInt(parts[3])
             IN  IF m \in 1..12 /\ y >= 1 /\ d >= 1 /\ d <= DaysInMonth(y, m)
                 THEN [ok |-> TRUE, date |-> <<y, m, d>>]
                 ELSE [ok |-> FALSE, date |-> <<1, 1, 1>>]
        ELSE [ok |-> FALSE, date |-> <<1, 1, 1>>]

(***************************************************************************)
(* Data frames: [columns, rows], every row a tuple in column order.       *)
(***************************************************************************)
DataFrame(columns, rows) == [columns |-> columns, rows |-> rows]

HasColumn(df, name) == \E i \in 1..Len(df.columns) : df.columns[i] = name

\* df[name]; read only where the column exists.
Column(df, name) ==
    LET c == CHOOSE i \in 1..Len(df.columns) : df.columns[i] = name
    IN  [r \in 1..Len(df.rows) |-> df.rows[r][c]]

\* pd.DataFrame(series) with its "_id" column converted by pd.to_datetime.
SeriesFrame(series, count_name) ==
    DataFrame(<<"_id", count_name>>,
              [i \in 1..Len(series) |->
                  <<to_datetime(series[i]._id).date, series[i].count>>])

SeriesParses(series) == \A i \in 1..Len(series) : to_datetime(series[i]._id).ok

\* sort_values on the date column c: ascending by calendar date, rows of
\* one date keeping their order.
RECURSIVE InsertByDate(_, _, _)
InsertByDate(sorted, row, c) ==
    IF sorted = <<>> THEN <<row>>
    ELSE IF DateLT(row[c], Head(sorted)[c]) THEN <<row>> \o sorted
    ELSE <<Head(sorted)>> \o InsertByDate(Tail(sorted), row, c)

RECURSIVE SortValues(_, _)
SortValues(rows, c) ==
    IF rows = <<>> THEN <<>>
    ELSE InsertByDate(SortValues(SubSeq(rows, 1, Len(rows) - 1), c),
                      rows[Len(rows)], c)

\* The rows of `right` whose date is `d`.
RECURSIVE Matching(_, _)
Matching(right, d) ==
    IF right = <<>> THEN <<>>
    ELSE (IF Head(right)[1] = d THEN <<Head(right)>> ELSE <<>>)
         \o Matching(Tail(right), d)

\* pd.merge(left, right, on='_id', how='outer').fillna(0): every left row
\* paired with every right row of its date, or with 0 when there is none;
\* then the right rows whose date no left row has, with 0 for the left.
RECURSIVE LeftJoin(_, _)
LeftJoin(left, right) ==
    IF left = <<>> THEN <<>>
    ELSE LET l == Head(left)
             ms == Matching(right, l[1])
         IN  (IF ms = <<>> THEN << <<l[1], l[2], 0>> >>
              ELSE [k \in 1..Len(ms) |-> <<l[1], l[2], ms[k][2]>>])
             \o LeftJoin(Tail(left), right)

RECURSIVE RightOnly(_, _)
RightOnly(left, right) ==
    IF right = <<>> THEN <<>>
    ELSE (IF Matching(left, Head(right)[1]) = <<>>
          THEN << <<Head(right)[1], 0, Head(right)[2]>> >> ELSE <<>>)
         \o RightOnly(left, Tail(right))

OuterMerge(left, right) ==
    DataFrame(<<"_id", "uploads", "analyses">>,
              LeftJoin(left.rows, right.rows) \o RightOnly(left.rows, right.rows))

(***************************************************************************)
(* The activity payload and tab2 (User Activity), dashboard.py lines      *)
(* 241-305.  A series entry is [_id, count]: its date token and the value *)
(* under its "uploads" or "analyses" key.                                 *)
(***************************************************************************)
NoActivity ==
    [t |-> "null", has |-> {}, daily_uploads |-> <<>>, daily_analyses |-> <<>>]

ActivityDict(has, du, da) ==
    [t |-> "dict", has |-> has, daily_uploads |-> du, daily_analyses |-> da]

\* Lines 260-270: the branch taken decides the names of the columns.
ActivityMerge(uploads_df, analyses_df) ==
    IF uploads_df.rows /= <<>> /\ analyses_df.rows /= <<>>
    THEN LET m == OuterMerge(uploads_df, analyses_df)
         IN  DataFrame(m.columns, SortValues(m.rows, 1))
    ELSE IF uploads_df.rows /= <<>>
    THEN LET s == SortValues(uploads_df.rows, 1)
         IN  DataFrame(<<"date", "Uploads", "Analyses">>,
                       [i \in 1..Len(s) |-> <<s[i][1], s[i][2], 0>>])
    ELSE IF analyses_df.rows /= <<>>
    THEN LET s == SortValues(analyses_df.rows, 1)
         IN  DataFrame(<<"date", "Analyses", "Uploads">>,
                       [i \in 1..Len(s) |-> <<s[i][1], s[i][2], 0>>])
    ELSE DataFrame(<<"date", "Uploads", "Analyses">>, <<>>)

\* Lines 274-288: one trace per column the figure finds.
Trace(df, column, name) ==
    IF HasColumn(df, column)
    THEN <<[name |-> name, x |-> Column(df, "date"), y |-> Column(df, column)]>>
    ELSE <<>>

ActivityNotRendered ==
    [shown |-> "none", raw_json |-> NoActivity,
     table |-> DataFrame(<<>>, <<>>), traces |-> <<>>]

Tab2(act, err) ==
    IF DictTruthy(act)
    THEN LET du == DictGet(act, "daily_uploads", <<>>)
             da == DictGet(act, "daily_analyses", <<>>)
         IN  IF ~SeriesParses(du) \/ ~SeriesParses(da)
             THEN [ActivityNotRendered EXCEPT !.shown = "warning",
                                              !.raw_json = act]
             ELSE LET df == ActivityMerge(SeriesFrame(du, "uploads"),
                                          SeriesFrame(da, "analyses"))
                  IN  IF df.rows = <<>>
                      THEN [shown |-> "info_no_activity", raw_json |-> act,
                            table |-> df, traces |-> <<>>]
                      ELSE IF (HasColumn(df, "Uploads") \/ HasColumn(df, "Analyses"))
                              /\ ~HasColumn(df, "date")
                      THEN [shown |-> "warning", raw_json |-> act,
                            table |-> df, traces |-> <<>>]
                      ELSE [shown |-> "chart", raw_json |-> act, table |-> df,
                            traces |->
                                Trace(df, "Uploads", "Image Uploads")
                                \o Trace(df, "Analyses", "Analyses Performed")]
    ELSE [ActivityNotRendered EXCEPT
             !.shown = IF err = <<>> THEN "waiting" ELSE "blank"]

(***************************************************************************)
(* The fetch block, dashboard.py lines 77-150.  A response is [kind,      *)
(* body]: "ok" is status 200 with a body that decodes to `body`,          *)
(* "non200" any other status, "bad_json" status 200 with a body that does *)
(* not decode, "conn_error" a requests.RequestException raised by         *)
(* requests.get, "timeout" a requests.Timeout raised by it.               *)
(***************************************************************************)
StatsUrl == "/dashboard/stats"
ActivityUrl == "/dashboard/user_activity"
LoginUrl == "/login"

Raising == {"conn_error", "timeout"}
FailKinds == {"non200", "bad_json", "conn_error", "timeout"}

\* "Authorization": f"Bearer {token}"
Bearer(token) == [scheme |-> "Bearer", credential |-> token]
NoAuth == [scheme |-> "none", credential |-> PyNone]

ParamsStats(start, end) ==
    [start_date |-> IsoFormat(start), end_date |-> IsoFormat(end)]

ParamsActivityExclusive(start, end) == [days |-> DaysBetween(start, end)]

ParamsActivity(start, end) == [days |-> DaysBetween(start, end) + 1]

Get(url, token, params) ==
    [method |-> "GET", url |-> url, auth |-> Bearer(token), params |-> params]

\* An item of error_message: the text names `about`, and `detail` is the
\* URL the interpolated exception text carries ("" when none is).
ErrorItem(about, kind, detail) == [about |-> about, kind |-> kind, detail |-> detail]

\* The except clauses, lines 145-150: the message replaces error_message.
ExceptMessage(kind, url) ==
    IF kind = "timeout"
    THEN <<ErrorItem("server", "timeout", "")>>
    ELSE <<ErrorItem("server", "connect", url)>>

\* Lines 117-126 and 129-142 for one response: [data, errors].
Process(resp, none, about) ==
    CASE resp.kind = "ok" -> [data |-> resp.body, errors |-> <<>>]
      [] resp.kind = "bad_json" ->
            [data |-> none, errors |-> <<ErrorItem(about, "parse", "")>>]
      [] OTHER ->
            [data |-> none, errors |-> <<ErrorItem(about, "status", "")>>]

\* Both requests are issued before either response is processed; an
\* exception raised by requests.get leaves the try block at once.
FetchData(token, start, end, rs, ra) ==
    LET reqS == Get(StatsUrl, token, ParamsStats(start, end))
        reqA == Get(ActivityUrl, token, ParamsActivity(start, end))
    IN  IF rs.kind \in Raising
        THEN [requests |-> <<reqS>>, stats |-> NoStats,
              activity_data |-> NoActivity,
              error_message |-> ExceptMessage(rs.kind, StatsUrl),
              stats_outcome |-> rs.kind, activity_outcome |-> "not_sent"]
        ELSE IF ra.kind \in Raising
        THEN [requests |-> <<reqS, reqA>>, stats |-> NoStats,
              activity_data |-> NoActivity,
              error_message |-> ExceptMessage(ra.kind, ActivityUrl),
              stats_outcome |-> rs.kind, activity_outcome |-> ra.kind]
        ELSE LET ps == Process(rs, NoStats, "statistics")
                 pa == Process(ra, NoActivity, "activity")
             IN  [requests |-> <<reqS, reqA>>, stats |-> ps.data,
                  activity_data |-> pa.data,
                  error_message |-> ps.errors \o pa.errors,
                  stats_outcome |-> rs.kind, activity_outcome |-> ra.kind]

(***************************************************************************)
(* Script runs.  The locals of dashboard.py do not exist after a run of   *)
(* main.py, nor before dashboard.py's fetch block.                        *)
(***************************************************************************)
NoFetchLocals ==
    /\ stats_outcome' = "not_sent"
    /\ activity_outcome' = "not_sent"
    /\ stats' = NoStats
    /\ activity_data' = NoActivity
    /\ error_message' = <<>>
    /\ overview' = NotRendered
    /\ activity_view' = ActivityNotRendered

NoLocals == date_range' = <<>> /\ NoFetchLocals

\* main.py lines 23-65 run with the session state (token, user, flag) and
\* no button pressed: what it displays and the flag it leaves.
MainRun(token, flag) ==
    IF ~Truthy(token)
    THEN [ui |-> {"login_form"}, flag |-> flag]
    ELSE [ui |-> (IF flag THEN {"welcome"} ELSE {}) \cup {"logged_in_as", "logout_button"},
          flag |-> FALSE]

\* dashboard.py line 44, given that main.py has set the key.
DashboardAuthenticatedNotNone(token) == ~IsNone(token)

DashboardAuthenticated(token) == Truthy(token)

(***************************************************************************)
(* Inputs.                                                                *)
(***************************************************************************)
SeqsUpTo(S, n) == UNION {[1..k -> S] : k \in 0..n}

Token1 == PyStr(<<"t", "1">>)
Token2 == PyStr(<<"t", "2">>)
\* What a 200 login body may carry under "access_token".
BodyTokens == {Token1, Token2, PyStr(<<>>), PyNone}
Usernames == {PyStr(<<"a", "l", "i", "c", "e">>)}

FirstDate == <<2024, 2, 28>>
RECURSIVE Shift(_, _)
Shift(d, k) == IF k = 0 THEN d ELSE Shift(NextDay(d), k - 1)
Dates == {Shift(FirstDate, k) : k \in 0..MaxSpan} \cup {<<2024, 3, 10>>}

Arm == PyStr(<<"a", "r", "m">>)
Entry(has_id, id, count) == [has_id |-> has_id, _id |-> id, count |-> count]

SampleStats ==
    StatsDict({"total_users", "total_images", "total_analyses",
               "body_part_distribution", "risk_distribution"},
              PyInt(7), PyInt(200), PyInt(50),
              <<Entry(TRUE, Arm, 50)>>, <<Entry(TRUE, PyNone, 50)>>)
EmptyStats == [NoStats EXCEPT !.t = "dict"]

Jan9 == <<"2", "0", "2", "4", "-", "0", "1", "-", "0", "9">>
Jan9Short == <<"2", "0", "2", "4", "-", "1", "-", "9">>
Jan10 == <<"2", "0", "2", "4", "-", "0", "1", "-", "1", "0">>
Jan10Short == <<"2", "0", "2", "4", "-", "1", "-", "1", "0">>
NoDate == <<"n", "/", "a">>
Dated(tok, count) == [_id |-> tok, count |-> count]

SampleActivity ==
    ActivityDict({"daily_uploads", "daily_analyses"},
                 <<Dated(Jan9, 3)>>, <<>>)
EmptyActivity == [NoActivity EXCEPT !.t = "dict"]

Responses(bodies, none) ==
    {[kind |-> "ok", body |-> b] : b \in bodies}
    \cup {[kind |-> k, body |-> none] : k \in FailKinds}

StatsResponses == Responses({SampleStats, EmptyStats}, NoStats)
ActivityResponses == Responses({SampleActivity, EmptyActivity}, NoActivity)

(***************************************************************************)
(* main.py.                                                               *)
(***************************************************************************)
LoginRequest(username) ==
    [method |-> "POST", url |-> LoginUrl, auth |-> NoAuth,
     params |-> [username |-> username]]

\* Lines 32-49 with a response that stores nothing: a status other than
\* 200, a RequestException, a body that does not decode (an exception the
\* installed requests may or may not derive from RequestException) or a
\* body without "access_token" (KeyError at line 42, before any store).
LoginRejected(username, kind) ==
    /\ ~Truthy(access_token)
    /\ requests' = <<LoginRequest(username)>>
    /\ \E shown \in CASE kind = "non200" -> {"Invalid credentials"}
                      [] kind = "conn_error" -> {"Connection error"}
                      [] kind = "bad_json" -> {"Connection error", "exception"}
                      [] OTHER -> {"exception"} :
          ui' = {"login_form", shown}
    /\ script' = "main"
    /\ NoLocals
    /\ UNCHANGED session

\* Lines 40-45 with status 200 and a body carrying "access_token", then
\* the rerun of the script that st.rerun() starts.
LoginAccepted(username, token) ==
    /\ ~Truthy(access_token)
    /\ requests' = <<LoginRequest(username)>>
    /\ access_token' = token
    /\ logged_in_user' = username
    /\ show_login_success' = MainRun(token, TRUE).flag
    /\ ui' = MainRun(token, TRUE).ui
    /\ script' = "main"
    /\ NoLocals

\* A run of main.py with no button pressed.
MainView ==
    /\ show_login_success' = MainRun(access_token, show_login_success).flag
    /\ ui' = MainRun(access_token, show_login_success).ui
    /\ requests' = <<>>
    /\ script' = "main"
    /\ NoLocals
    /\ UNCHANGED <<access_token, logged_in_user>>

\* Lines 59-65: the Logout button, then the rerun.
Logout ==
    /\ Truthy(access_token)
    /\ access_token' = PyNone
    /\ logged_in_user' = PyNone
    /\ show_login_success' = FALSE
    /\ ui' = MainRun(PyNone, FALSE).ui
    /\ requests' = <<>>
    /\ script' = "main"
    /\ NoLocals

(***************************************************************************)
(* pages/dashboard.py.                                                    *)
(***************************************************************************)
\* Lines 44-46.
DashboardLoginRequired ==
    /\ ~DashboardAuthenticated(access_token)
    /\ ui' = {"Please login first."}
    /\ requests' = <<>>
    /\ script' = "dashboard"
    /\ NoLocals
    /\ UNCHANGED session

\* Lines 72-74: the picker returned fewer than two dates.
DashboardIncompleteRange(dr) ==
    /\ DashboardAuthenticated(access_token)
    /\ Len(dr) /= 2
    /\ date_range' = dr
    /\ ui' = {"title", "Please select both start and end dates in the sidebar."}
    /\ requests' = <<>>
    /\ script' = "dashboard"
    /\ NoFetchLocals
    /\ UNCHANGED session

\* Lines 65-70.
DashboardInvalidRange(start, end) ==
    /\ DashboardAuthenticated(access_token)
    /\ DateLT(end, start)
    /\ date_range' = <<start, end>>
    /\ ui' = {"title", "Start date cannot be after end date."}
    /\ requests' = <<>>
    /\ script' = "dashboard"
    /\ NoFetchLocals
    /\ UNCHANGED session

\* Lines 65-310 with a valid range: fetch, error banner, tab1, tab2.  An
\* exception that leaves tab1 ends the script before tab2.
DashboardFetch(start, end, rs, ra) ==
    /\ DashboardAuthenticated(access_token)
    /\ ~DateLT(end, start)
    /\ LET f == FetchData(access_token, start, end, rs, ra)
           t1 == Tab1(f.stats, f.error_message)
       IN  /\ date_range' = <<start, end>>
           /\ requests' = f.requests
           /\ stats_outcome' = f.stats_outcome
           /\ activity_outcome' = f.activity_outcome
           /\ stats' = t1.stats
           /\ activity_data' = f.activity_data
           /\ error_message' = f.error_message
           /\ overview' = t1.view
           /\ activity_view' =
                 IF t1.crashed THEN ActivityNotRendered
                 ELSE Tab2(f.activity_data, f.error_message)
           /\ ui' = {"title", "range_info", "tabs"}
                    \cup (IF f.error_message /= <<>>
                          THEN {"Failed to load dashboard data"} ELSE {})
                    \cup (IF t1.crashed THEN {"exception"} ELSE {})
    /\ script' = "dashboard"
    /\ UNCHANGED session

(***************************************************************************)
(* The session: logins, logouts and dashboard passes in any order.        *)
(***************************************************************************)
Init ==
    /\ access_token = PyNone
    /\ logged_in_user = PyNone
    /\ show_login_success = FALSE
    /\ script = "main"
    /\ ui = {"login_form"}
    /\ requests = <<>>
    /\ date_range = <<>>
    /\ stats_outcome = "not_sent"
    /\ activity_outcome = "not_sent"
    /\ stats = NoStats
    /\ activity_data = NoActivity
    /\ error_message = <<>>
    /\ overview = NotRendered
    /\ activity_view = ActivityNotRendered

Next ==
    \/ \E u \in Usernames, k \in {"non200", "conn_error", "bad_json", "no_key"} :
          LoginRejected(u, k)
    \/ \E u \in Usernames, tok \in BodyTokens : LoginAccepted(u, tok)
    \/ MainView
    \/ Logout
    \/ DashboardLoginRequired
    \/ \E dr \in SeqsUpTo(Dates, 1) : DashboardIncompleteRange(dr)
    \/ \E s \in Dates, e \in Dates : DashboardInvalidRange(s, e)
    \/ \E s \in Dates, e \in Dates, rs \in StatsResponses, ra \in ActivityResponses :
          DashboardFetch(s, e, rs, ra)

Spec == Init /\ [][Next]_vars

(***************************************************************************)
(* Properties of the session and of the fetch block, under Spec.          *)
(***************************************************************************)
IsFetch(r) == r.method = "GET" /\ r.url \in {StatsUrl, ActivityUrl}

Failed(outcome) == outcome \in FailKinds

\* An item of the message that reports the failure of the endpoint.
Reports(item, about, url) == item.about = about \/ item.detail = url

\* C1: in a dashboard pass that fetched, an endpoint whose request came
\* back 200 with a decodable body has its data (not None) at display time
\* whatever happened to the other request, and when the other request
\* failed an error is reported.
C1_PartialFailureKeepsData ==
    (script = "dashboard" /\ requests /= <<>>) =>
        /\ stats_outcome = "ok" => stats.t = "dict"
        /\ activity_outcome = "ok" => activity_data.t = "dict"
        /\ (Failed(stats_outcome) \/ Failed(activity_outcome)) =>
              error_message /= <<>>

\* C2: every GET to /dashboard/stats or /dashboard/user_activity is issued
\* with the session token present and carries exactly that token as its
\* Bearer credential; a dashboard pass without a token issues no request
\* and asks for a login.
C2_FetchOnlyWithToken ==
    /\ \A i \in 1..Len(requests) :
          IsFetch(requests[i]) =>
              /\ Truthy(access_token)
              /\ requests[i].auth = Bearer(access_token)
    /\ (script = "dashboard" /\ ~Truthy(access_token)) =>
          /\ requests = <<>>
          /\ "Please login first." \in ui

\* A second login, under another token, followed by a dashboard pass that
\* issued both requests.
C2_Witness ==
    /\ access_token = Token2
    /\ Len(requests) = 2
    /\ IsFetch(requests[1]) /\ IsFetch(requests[2])

\* The days from start to end, both included, counted one day at a time.
RECURSIVE CountDays(_, _)
CountDays(start, end) ==
    IF start = end THEN 1 ELSE 1 + CountDays(NextDay(start), end)

\* C3: a range with start > end shows the validation error and issues no
\* request; a selection without both dates issues no request; a range with
\* start <= end proceeds to the fetch, and the activity request carries
\* days = (end - start in days) + 1, which is 1 when start = end.
C3_DateRangeGatesFetch ==
    script = "dashboard" =>
        /\ Len(date_range) /= 2 => requests = <<>>
        /\ (Len(date_range) = 2 /\ DateLT(date_range[2], date_range[1])) =>
              /\ requests = <<>>
              /\ "Start date cannot be after end date." \in ui
        /\ (Len(date_range) = 2 /\ ~DateLT(date_range[2], date_range[1])) =>
              /\ requests /= <<>>
              /\ requests[1].url = StatsUrl
              /\ \A i \in 1..Len(requests) :
                    requests[i].url = ActivityUrl =>
                        /\ requests[i].params.days =
                              CountDays(date_range[1], date_range[2])
                        /\ date_range[1] = date_range[2] =>
                              requests[i].params.days = 1

\* A pass over 29 February to 1 March 2024 that sent the activity request.
C3_Witness ==
    /\ script = "dashboard"
    /\ date_range = << <<2024, 2, 29>>, <<2024, 3, 1>> >>
    /\ Len(requests) = 2
    /\ requests[2].url = ActivityUrl
    /\ requests[2].params.days = 2

\* C4: when the stats fetch and the activity fetch both fail in one pass,
\* the error message holds an item for the stats failure and an item for
\* the activity failure.
C4_BothFailuresItemized ==
    (script = "dashboard" /\ Failed(stats_outcome) /\ Failed(activity_outcome)) =>
        /\ \E i \in 1..Len(error_message) :
              Reports(error_message[i], "statistics", StatsUrl)
        /\ \E i \in 1..Len(error_message) :
              Reports(error_message[i], "activity", ActivityUrl)

\* C5: between script runs the token is present exactly when the
\* logged-in username is.
C5_TokenIffUser == Truthy(access_token) <=> ~IsNone(logged_in_user)

(***************************************************************************)
(* One dashboard pass over a wide set of payloads.  A pass reads nothing  *)
(* of an earlier pass (its locals are assigned afresh at lines 78-80), so *)
(* the pass that follows a login stands for every pass.                   *)
(***************************************************************************)
InitLoggedIn ==
    /\ access_token = Token1
    /\ logged_in_user \in Usernames
    /\ show_login_success = FALSE
    /\ script = "main"
    /\ ui = MainRun(Token1, TRUE).ui
    /\ requests = <<LoginRequest(logged_in_user)>>
    /\ date_range = <<>>
    /\ stats_outcome = "not_sent"
    /\ activity_outcome = "not_sent"
    /\ stats = NoStats
    /\ activity_data = NoActivity
    /\ error_message = <<>>
    /\ overview = NotRendered
    /\ activity_view = ActivityNotRendered

Ok(body) == [kind |-> "ok", body |-> body]

FirstPass(stats_body, activity_body) ==
    /\ script = "main"
    /\ DashboardFetch(FirstDate, FirstDate, Ok(stats_body), Ok(activity_body))

\* A key of the payload: absent, or present with a value.
Absent == [present |-> FALSE, v |-> PyNone]
Present(v) == [present |-> TRUE, v |-> v]

StatsFrom(tu, ti, ta, bp, rd) ==
    StatsDict({"body_part_distribution", "risk_distribution"}
                  \cup (IF tu.present THEN {"total_users"} ELSE {})
                  \cup (IF ti.present THEN {"total_images"} ELSE {})
                  \cup (IF ta.present THEN {"total_analyses"} ELSE {}),
              tu.v, ti.v, ta.v, bp, rd)

NumChoices ==
    {Absent} \cup
    {Present(v) : v \in
        {PyNone, PyStr(ErrorText), PyInt(0), PyInt(5), PyInt(50), PyInt(200),
         PyInt(0 - 3), PyStr(<<"4", "2">>), PyStr(<<" ", "-", "7", " ">>),
         PyStr(<<"a", "b", "c">>), PyStr(<<"3", ".", "5">>), PyStr(<<>>),
         PyFloat(37), PyFloat(0 - 37), PyInf, PyNaN, PyBool(TRUE), PyList,
         PyDict}}

UserChoices == {Absent, Present(PyInt(7)), Present(PyStr(ErrorText))}

KpiStats ==
    {StatsFrom(tu, ti, ta, <<Entry(TRUE, Arm, 1)>>, <<Entry(TRUE, PyNone, 1)>>) :
        tu \in UserChoices, ti \in NumChoices, ta \in NumChoices}

NextKpi == \E st \in KpiStats : FirstPass(st, SampleActivity)

SpecKpi == InitLoggedIn /\ [][NextKpi]_vars

DistEntries ==
    {Entry(TRUE, PyNone, 1), Entry(TRUE, Arm, 2), Entry(FALSE, PyNone, 3)}

DistStats ==
    {StatsFrom(Present(PyInt(7)), Present(PyInt(9)), ta, bp, rd) :
        ta \in {Absent, Present(PyInt(0)), Present(PyInt(3)),
                Present(PyStr(ErrorText))},
        bp \in SeqsUpTo(DistEntries, MaxDist),
        rd \in SeqsUpTo(DistEntries, MaxDist)}

NextDist == \E st \in DistStats : FirstPass(st, SampleActivity)

SpecDist == InitLoggedIn /\ [][NextDist]_vars

DatedEntries ==
    {Dated(tok, c) : tok \in {Jan9, Jan9Short, Jan10, Jan10Short, NoDate},
                     c \in {1, 2}}

MergeActivity ==
    {ActivityDict({"daily_uploads", "daily_analyses"}, du, da) :
        du \in SeqsUpTo(DatedEntries, MaxSeries),
        da \in SeqsUpTo(DatedEntries, MaxSeries)}

NextMerge == \E act \in MergeActivity : FirstPass(SampleStats, act)

SpecMerge == InitLoggedIn /\ [][NextMerge]_vars

(***************************************************************************)
(* Properties of tab1, under SpecKpi and SpecDist.                        *)
(***************************************************************************)
\* The payload as the pass received it (st.json shows it before any
\* relabelling).
Payload == overview.raw_json

OverviewReached == script = "dashboard" /\ DictTruthy(Payload)

\* The values for which safe_get is to give the default.
Defaulted(data, key) ==
    \/ key \notin data.has
    \/ data[key].t \in {"null", "list", "dict", "nan", "inf"}
    \/ data[key].t = "str" /\ IntOfStr(data[key].s).r /= "ok"

\* C7: safe_get never raises and never hands on a value of the payload
\* that is no number: for total_images and total_analyses (default 0) it
\* gives 0 when the key is absent, null, "Error" or not coercible, and an
\* int otherwise; for total_users it gives "N/A" or an int.
C7_SafeGetTotal ==
    OverviewReached =>
        /\ overview.shown /= "exception"
        /\ \A key \in {"total_images", "total_analyses"} :
              /\ overview[key].t = "int"
              /\ Defaulted(Payload, key) => overview[key] = PyInt(0)
        /\ IF Defaulted(Payload, "total_users")
           THEN overview.total_users = NotAvailable
           ELSE overview.total_users.t = "int"

\* C8: the rate is never computed with a zero denominator: it is
\* total_analyses / total_images * 100 when total_images > 0 and 0
\* otherwise.  total_images "Error", null or missing with total_analyses 5
\* gives 0, 5 and rate 0; (0, 0) gives 0; (50, 200) gives 25.
C8_AnalysisRateGuarded ==
    (OverviewReached /\ overview.shown = "kpis") =>
        LET ti == overview.total_images.n
            ta == overview.total_analyses.n
            r == overview.analysis_rate
            given(key, v) == key \in Payload.has /\ Payload[key] = v
        IN  /\ r.den > 0
            /\ ti > 0 => r.num * ti = ta * 100 * r.den
            /\ ti <= 0 => r.num = 0
            /\ ( /\ \/ "total_images" \notin Payload.has
                    \/ given("total_images", PyNone)
                    \/ given("total_images", PyStr(ErrorText))
                 /\ given("total_analyses", PyInt(5)) ) =>
                  ti = 0 /\ ta = 5 /\ r.num = 0
            /\ (given("total_images", PyInt(0)) /\ given("total_analyses", PyInt(0))) =>
                  r.num = 0
            /\ (given("total_images", PyInt(200)) /\ given("total_analyses", PyInt(50))) =>
                  r.num = 25 * r.den

\* The scenario of spec section 8: total_images is "Error", total_analyses 5.
C8_Witness ==
    /\ overview.shown = "kpis"
    /\ "total_images" \in Payload.has
    /\ Payload.total_images = PyStr(ErrorText)
    /\ "total_analyses" \in Payload.has
    /\ Payload.total_analyses = PyInt(5)
    /\ overview.total_analyses = PyInt(5)
    /\ overview.analysis_rate.num = 0

WellFormed(dist) == \A i \in 1..Len(dist) : dist[i].has_id

NoNullId(dist) == \A i \in 1..Len(dist) : ~IsNone(dist[i]._id)

\* C9: with well-formed distribution lists no null id appears in anything
\* the pass renders, whatever total_analyses is, and a chart that is drawn
\* has a row for every entry.
C9_NoNullIdRendered ==
    ( /\ OverviewReached
      /\ WellFormed(Payload.body_part_distribution)
      /\ WellFormed(Payload.risk_distribution) ) =>
        /\ NoNullId(Payload.body_part_distribution)
        /\ NoNullId(Payload.risk_distribution)
        /\ NoNullId(overview.body_part.rows)
        /\ NoNullId(overview.risk.rows)
        /\ overview.body_part.kind = "chart" =>
              Len(overview.body_part.rows) = Len(Payload.body_part_distribution)
        /\ overview.risk.kind = "chart" =>
              Len(overview.risk.rows) = Len(Payload.risk_distribution)

(***************************************************************************)
(* Properties of tab2, under SpecMerge.                                   *)
(***************************************************************************)
Uploads == activity_data.daily_uploads
Analyses == activity_data.daily_analyses

\* tab2 was reached with series whose date tokens all parse.
MergeReached ==
    /\ script = "dashboard"
    /\ DictTruthy(activity_data)
    /\ SeriesParses(Uploads)
    /\ SeriesParses(Analyses)

DatesOf(series) == {to_datetime(series[i]._id).date : i \in 1..Len(series)}

CountsOn(series, d) ==
    {series[i].count : i \in {j \in 1..Len(series) : to_datetime(series[j]._id).date = d}}

\* The column of the merged table that holds the dates, whatever the
\* branch named it.
NamedColumn(df, names) ==
    Column(df, CHOOSE n \in names : HasColumn(df, n))

\* C6: the merged table is the outer join on calendar date: one row per
\* date of the union of both inputs, each row with each source's count for
\* the date or 0, rows ascending by date; two empty inputs give no row.
C6_MergeIsOuterJoin ==
    MergeReached =>
        LET df == activity_view.table
            n == Len(df.rows)
            dates == NamedColumn(df, {"_id", "date"})
            ups == NamedColumn(df, {"uploads", "Uploads"})
            ans == NamedColumn(df, {"analyses", "Analyses"})
        IN  /\ {dates[i] : i \in 1..n} = DatesOf(Uploads) \cup DatesOf(Analyses)
            /\ \A i \in 1..n, j \in 1..n : i < j => DateLT(dates[i], dates[j])
            /\ \A i \in 1..n :
                  /\ ups[i] \in (IF dates[i] \in DatesOf(Uploads)
                                 THEN CountsOn(Uploads, dates[i]) ELSE {0})
                  /\ ans[i] \in (IF dates[i] \in DatesOf(Analyses)
                                 THEN CountsOn(Analyses, dates[i]) ELSE {0})

\* C10: whenever at least one series has an entry, the merged table has
\* the columns the chart reads (date, Uploads, Analyses) and the chart is
\* drawn with the uploads line and the analyses line.
C10_ChartHasBothLines ==
    (MergeReached /\ (Uploads /= <<>> \/ Analyses /= <<>>)) =>
        /\ \A c \in {"date", "Uploads", "Analyses"} :
              HasColumn(activity_view.table, c)
        /\ activity_view.shown = "chart"
        /\ Len(activity_view.traces) = 2

====
